---- MODULE Spec2Model ----
(***************************************************************************)
(* A state-machine model of chess.py: the Board (grid, registry, king      *)
(* lookup, en-passant target, castling tables, turn), its three mutating   *)
(* operations add_piece / remove_piece / move_piece, the per-piece         *)
(* is_valid / valid_pos functions with the path-blocking helpers, and the  *)
(* notation codec locate / Position.__str__.                               *)
(*                                                                         *)
(* Conventions                                                             *)
(*   - a Position is the tuple <<row, col>>; a piece's position None is    *)
(*     the empty tuple <<>>;                                               *)
(*   - a piece object is an index into objs; the Python value None in a    *)
(*     grid cell, in kings or in en_passant is the number None (0);        *)
(*   - a call that can raise returns a record [kind, val]: kind is         *)
(*     "value" for a normal return, else the name of the exception;        *)
(*   - make_move (lines 386-412) sits inside a string literal (lines       *)
(*     385-414): it is not a method of Board and nothing can call it, so   *)
(*     the model has no action for it.  Moves are committed by move_piece. *)
(***************************************************************************)
EXTENDS Integers, Sequences, FiniteSets, TLC

\* Side of the board: range(8), and the bound of Position.in_range.
N == 8

\* Python's None as a cell / kings / en_passant value.
None == 0

\* Number of operations applied to a board after its construction.
MaxOps == 2

VARIABLES
    board,              \* self.board: board[row][col] is a piece or None
    pieces,             \* self.pieces: the registry, a list of pieces
    kings,              \* self.kings: color -> piece (None: no such key)
    en_passant,         \* self.en_passant
    queen_side_castle,  \* self.queen_side_castle: color -> bool
    king_side_castle,   \* self.king_side_castle: color -> bool
    turn,               \* self.turn
    objs,               \* the Piece objects created so far
    last                \* the last operation called and how it ended

vars == <<board, pieces, kings, en_passant, queen_side_castle,
          king_side_castle, turn, objs, last>>

Colors == {"white", "black"}

Names == {"pawn", "knight", "bishop", "rook", "queen", "king"}

Rows == 0 .. (N - 1)

\* All positions with in_range() true.
InRange == Rows \X Rows

----------------------------------------------------------------------------
(* Position *)

Position(row, col) == <<row, col>>

\* Position.__add__: translation without a range check.
Add(p, pair) == <<p[1] + pair[1], p[2] + pair[2]>>

\* Position.in_range
in_range(p) == 0 <= p[1] /\ p[1] < N /\ 0 <= p[2] /\ p[2] < N

abs(x) == IF x < 0 THEN -x ELSE x

max(x, y) == IF x >= y THEN x ELSE y

----------------------------------------------------------------------------
(* Results of calls *)

Value(v) == [kind |-> "value", val |-> v]

Raise(e) == [kind |-> e, val |-> None]

Returned(r) == r.kind = "value"

\* A Python list index i on a list of length N: -N..N-1 are valid, and a
\* negative index counts from the end.
PyIndexOk(i) == -N <= i /\ i < N

PyIndex(i) == IF i < 0 THEN i + N ELSE i

\* Board.get_piece: self.board[position.row][position.col]
get_piece(position) ==
    IF PyIndexOk(position[1]) /\ PyIndexOk(position[2])
    THEN Value(board[PyIndex(position[1])][PyIndex(position[2])])
    ELSE Raise("IndexError")

----------------------------------------------------------------------------
(* Notation: a Python string is the tuple of its characters *)

\* "abcdefgh"
Files == <<"a", "b", "c", "d", "e", "f", "g", "h">>

\* "12345678"
Ranks == <<"1", "2", "3", "4", "5", "6", "7", "8">>

\* str.index(ch) for a one-character ch: the 0-based place of its first
\* occurrence, ValueError when there is none.
str_index(str, ch) ==
    IF \E i \in DOMAIN str : str[i] = ch
    THEN Value((CHOOSE i \in DOMAIN str :
                    str[i] = ch /\ \A j \in 1 .. (i - 1) : str[j] # ch) - 1)
    ELSE Raise("ValueError")

\* str[i] for a Python index i: IndexError outside -len..len-1.
str_item(str, i) ==
    IF -Len(str) <= i /\ i < Len(str)
    THEN Value(str[(IF i < 0 THEN i + Len(str) ELSE i) + 1])
    ELSE Raise("IndexError")

\* locate with the row taken from the file letter and the column from the
\* rank digit.
locate_swapped(pos_str) ==
    LET rank_ch == str_item(pos_str, 1)
        file_ch == str_item(pos_str, 0)
        row == str_index(Files, file_ch.val)
        col == str_index(Ranks, rank_ch.val)
    IN  IF ~Returned(rank_ch) THEN rank_ch
        ELSE IF ~Returned(col) THEN col
        ELSE IF ~Returned(file_ch) THEN file_ch
        ELSE IF ~Returned(row) THEN row
        ELSE Value(Position(row.val, col.val))

\* locate(pos_str): the row from the rank digit pos_str[1], then the column
\* from the file letter pos_str[0].
locate(pos_str) ==
    LET rank_ch == str_item(pos_str, 1)
        file_ch == str_item(pos_str, 0)
        row == str_index(Ranks, rank_ch.val)
        col == str_index(Files, file_ch.val)
    IN  IF ~Returned(rank_ch) THEN rank_ch
        ELSE IF ~Returned(row) THEN row
        ELSE IF ~Returned(file_ch) THEN file_ch
        ELSE IF ~Returned(col) THEN col
        ELSE Value(Position(row.val, col.val))

\* Position.__str__: "abcdefgh"[col] + "12345678"[row]
Position_str(p) ==
    LET file_ch == str_item(Files, p[2])
        rank_ch == str_item(Ranks, p[1])
    IN  IF ~Returned(file_ch) THEN file_ch
        ELSE IF ~Returned(rank_ch) THEN rank_ch
        ELSE Value(<<file_ch.val, rank_ch.val>>)

----------------------------------------------------------------------------
(* Board.__init__ *)

BackRank == <<"rook", "knight", "bishop", "queen", "king", "bishop",
              "knight", "rook">>

\* The pieces Board() adds, in the order of its add_piece calls: the white
\* back rank, the black back rank, then a white and a black pawn per file.
StartPiece(i) ==
    IF i <= N
    THEN [name |-> BackRank[i], color |-> "white",
          position |-> Position(0, i - 1), attached |-> TRUE]
    ELSE IF i <= 2 * N
    THEN [name |-> BackRank[i - N], color |-> "black",
          position |-> Position(7, i - N - 1), attached |-> TRUE]
    ELSE IF (i - 2 * N) % 2 = 1
    THEN [name |-> "pawn", color |-> "white",
          position |-> Position(1, (i - 2 * N - 1) \div 2), attached |-> TRUE]
    ELSE [name |-> "pawn", color |-> "black",
          position |-> Position(6, (i - 2 * N - 1) \div 2), attached |-> TRUE]

StartObjs == [i \in 1 .. (4 * N) |-> StartPiece(i)]

EmptyGrid == [r \in Rows |-> [c \in Rows |-> None]]

GridOf(os) ==
    [r \in Rows |-> [c \in Rows |->
        IF \E i \in DOMAIN os : os[i].position = Position(r, c)
        THEN CHOOSE i \in DOMAIN os : os[i].position = Position(r, c)
        ELSE None]]

\* last: op is the operation and n its number; a and b are its positions
\* (initial and final of a move); piece is the piece it found or placed and
\* prev the occupant of b before it; exc is the exception it raised, if
\* any; offered tells whether, before a move, the piece gave the
\* destination as its own (is_valid true, or listed by valid_pos).
NoOp == [op |-> "init", n |-> 0, a |-> <<>>, b |-> <<>>, piece |-> None,
         prev |-> None, exc |-> "none", offered |-> FALSE]

\* Board(empty): the state after construction.
BoardInit(empty) ==
    /\ objs = IF empty THEN <<>> ELSE StartObjs
    /\ board = IF empty THEN EmptyGrid ELSE GridOf(StartObjs)
    /\ pieces = IF empty THEN <<>> ELSE [i \in 1 .. (4 * N) |-> i]
    /\ kings = IF empty THEN [c \in Colors |-> None]
               ELSE [c \in Colors |-> IF c = "white" THEN 5 ELSE 13]
    /\ en_passant = None
    /\ queen_side_castle = [c \in Colors |-> TRUE]
    /\ king_side_castle = [c \in Colors |-> TRUE]
    /\ turn = "white"
    /\ last = NoOp

Init == \E empty \in BOOLEAN : BoardInit(empty)

----------------------------------------------------------------------------
(* Path blocking *)

\* The loop of both helpers: for i in range(i, n), the path is blocked at
\* the first occupied square position + (row_unit * i, col_unit * i).
RECURSIVE PathBlocked(_, _, _, _, _)
PathBlocked(from, row_unit, col_unit, i, n) ==
    IF i >= n THEN Value(FALSE)
    ELSE LET g == get_piece(Add(from, <<row_unit * i, col_unit * i>>)) IN
         IF ~Returned(g) THEN g
         ELSE IF g.val # None THEN Value(TRUE)
         ELSE PathBlocked(from, row_unit, col_unit, i + 1, n)

\* piece_is_blocked_straight(piece, position)
piece_is_blocked_straight(piece, position) ==
    LET row_change == position[1] - objs[piece].position[1]
        col_change == position[2] - objs[piece].position[2]
        n == abs(row_change)
        m == abs(col_change)
        row_unit == IF n = 0 THEN 0 ELSE row_change \div n
        col_unit == IF m = 0 THEN 0 ELSE col_change \div m
    IN  IF n = 0 \/ m = 0
        THEN PathBlocked(objs[piece].position, row_unit, col_unit, 1, max(n, m))
        ELSE Value(TRUE)

\* piece_is_blocked_diagonal(piece, position)
piece_is_blocked_diagonal(piece, position) ==
    LET row_change == position[1] - objs[piece].position[1]
        col_change == position[2] - objs[piece].position[2]
        n == abs(row_change)
        m == abs(col_change)
    IN  IF n = m /\ n # 0
        THEN PathBlocked(objs[piece].position, row_change \div n,
                         col_change \div m, 1, n)
        ELSE Value(TRUE)

----------------------------------------------------------------------------
(* Pieces: is_valid(position) and valid_pos() of each class.  self is a   *)
(* piece with a position; the board read is the one that holds it.         *)

InSeq(x, s) == \E i \in DOMAIN s : s[i] = x

\* "target and target.color == self.color" for an in-range position.
OwnTarget(self, position) ==
    LET target == get_piece(position).val IN
    target # None /\ objs[target].color = objs[self].color

PawnUnit(self) == IF objs[self].color = "white" THEN 1 ELSE -1

PawnStart(self) == IF objs[self].color = "white" THEN 1 ELSE 6

\* Pawn.is_valid
Pawn_is_valid(self, position) ==
    LET here == objs[self].position
        unit == PawnUnit(self)
        t == get_piece(position)
        target == t.val
        mod_pos == Add(position, <<-unit, 0>>)
        victim == get_piece(mod_pos).val
    IN  IF ~Returned(t) THEN t
        ELSE IF position = Add(here, <<unit, 0>>) /\ target = None
        THEN Value(TRUE)
        ELSE IF /\ position = Add(here, <<2 * unit, 0>>)
                /\ here[1] = PawnStart(self)
                /\ get_piece(Add(here, <<unit, 0>>)).val = None
                /\ target = None
        THEN Value(TRUE)
        ELSE IF position = Add(here, <<unit, 1>>) \/ position = Add(here, <<unit, -1>>)
        THEN IF target # None /\ objs[target].color # objs[self].color
             THEN Value(TRUE)
             ELSE IF /\ victim # None
                     /\ objs[victim].color # objs[self].color
                     /\ victim = en_passant
             THEN Value(TRUE)
             ELSE Value(FALSE)
        ELSE Value(FALSE)

\* One pass of the attack loop of Pawn.valid_pos for the square p: what it
\* appends to the list, or the exception a get_piece raises.
PawnAttack(self, p) ==
    LET ep == Add(p, <<-PawnUnit(self), 0>>)
        gp == get_piece(p)
        ge == get_piece(ep)
    IN  IF ~Returned(gp) THEN gp
        ELSE IF gp.val # None /\ objs[gp.val].color # objs[self].color
        THEN Value(<<p>>)
        ELSE IF ~Returned(ge) THEN ge
        ELSE IF ge.val # None /\ ge.val = en_passant
        THEN Value(<<p>>)
        ELSE Value(<<>>)

\* Pawn.valid_pos
Pawn_valid_pos(self) ==
    LET here == objs[self].position
        unit == PawnUnit(self)
        forward_one == Add(here, <<unit, 0>>)
        forward_two == Add(here, <<2 * unit, 0>>)
        g1 == get_piece(forward_one)
        g2 == get_piece(forward_two)
        two == IF here[1] = PawnStart(self)
               THEN IF ~Returned(g2) THEN g2
                    ELSE IF g2.val = None THEN Value(<<forward_two>>)
                    ELSE Value(<<>>)
               ELSE Value(<<>>)
        left == PawnAttack(self, Add(here, <<unit, -1>>))
        right == PawnAttack(self, Add(here, <<unit, 1>>))
    IN  IF ~Returned(g1) THEN g1
        ELSE IF g1.val = None /\ ~Returned(two) THEN two
        ELSE IF ~Returned(left) THEN left
        ELSE IF ~Returned(right) THEN right
        ELSE Value((IF g1.val = None THEN <<forward_one>> \o two.val ELSE <<>>)
                   \o left.val \o right.val)

\* The inner loop of Bishop/Rook.valid_pos along one unit, from cur.
RECURSIVE Ray(_, _, _)
Ray(self, cur, unit) ==
    LET nxt == Add(cur, unit)
        piece == get_piece(nxt).val
    IN  IF ~in_range(nxt) THEN <<>>
        ELSE IF piece # None
        THEN IF objs[piece].color # objs[self].color THEN <<nxt>> ELSE <<>>
        ELSE <<nxt>> \o Ray(self, nxt, unit)

\* The outer loop: the rays of the units, in order.
RECURSIVE Rays(_, _)
Rays(self, units) ==
    IF units = <<>> THEN <<>>
    ELSE Ray(self, objs[self].position, Head(units)) \o Rays(self, Tail(units))

BishopUnits == << <<1, 1>>, <<1, -1>>, <<-1, 1>>, <<-1, -1>> >>

RookUnits == << <<1, 0>>, <<0, 1>>, <<-1, 0>>, <<0, -1>> >>

QueenUnits == RookUnits \o BishopUnits

KnightUnits == << <<1, 2>>, <<2, 1>>, <<-1, 2>>, <<2, -1>>,
                  <<1, -2>>, <<-2, 1>>, <<-1, -2>>, <<-2, -1>> >>

KingUnits == << <<1, 0>>, <<1, 1>>, <<0, 1>>, <<-1, 1>>,
                <<-1, 0>>, <<-1, -1>>, <<0, -1>>, <<1, -1>> >>

\* Bishop.is_valid
Bishop_is_valid(self, position) ==
    LET blocked == piece_is_blocked_diagonal(self, position) IN
    IF ~Returned(blocked) THEN blocked
    ELSE IF blocked.val THEN Value(FALSE)
    ELSE IF ~Returned(get_piece(position)) THEN get_piece(position)
    ELSE IF OwnTarget(self, position) THEN Value(FALSE)
    ELSE Value(TRUE)

\* Bishop.valid_pos
Bishop_valid_pos(self) == Value(Rays(self, BishopUnits))

\* Knight.is_valid
Knight_is_valid(self, position) ==
    LET row_change == abs(objs[self].position[1] - position[1])
        col_change == abs(objs[self].position[2] - position[2])
    IN  IF ~(\/ row_change = 2 /\ col_change = 1
             \/ row_change = 1 /\ col_change = 2)
        THEN Value(FALSE)
        ELSE IF ~Returned(get_piece(position)) THEN get_piece(position)
        ELSE IF OwnTarget(self, position) THEN Value(FALSE)
        ELSE Value(TRUE)

\* Knight.valid_pos
Knight_valid_pos(self) ==
    LET curs == [i \in DOMAIN KnightUnits |->
                    Add(objs[self].position, KnightUnits[i])]
        Keep(cur) == in_range(cur) /\ ~OwnTarget(self, cur)
    IN  Value(SelectSeq(curs, Keep))

\* Rook.is_valid
Rook_is_valid(self, position) ==
    LET blocked == piece_is_blocked_straight(self, position) IN
    IF ~Returned(blocked) THEN blocked
    ELSE IF blocked.val THEN Value(FALSE)
    ELSE IF ~Returned(get_piece(position)) THEN get_piece(position)
    ELSE IF OwnTarget(self, position) THEN Value(FALSE)
    ELSE Value(TRUE)

\* Rook.valid_pos
Rook_valid_pos(self) == Value(Rays(self, RookUnits))

\* Queen.is_valid
Queen_is_valid(self, position) ==
    LET straight == piece_is_blocked_straight(self, position)
        diagonal == piece_is_blocked_diagonal(self, position)
    IN  IF ~Returned(straight) THEN straight
        ELSE IF straight.val /\ ~Returned(diagonal) THEN diagonal
        ELSE IF straight.val /\ diagonal.val THEN Value(FALSE)
        ELSE IF ~Returned(get_piece(position)) THEN get_piece(position)
        ELSE IF OwnTarget(self, position) THEN Value(FALSE)
        ELSE Value(TRUE)

\* Queen.valid_pos: the first pass of the loop calls is_in_range(cur), a
\* name defined nowhere (the method is Position.in_range): NameError.
Queen_valid_pos(self) ==
    IF QueenUnits = <<>> THEN Value(<<>>) ELSE Raise("NameError")

\* King.is_valid: position[0] subscripts a Position, which defines no
\* __getitem__: TypeError on the first line, for every position.
King_is_valid(self, position) == Raise("TypeError")

\* King.valid_pos: get_piece(cur) is called before cur.in_range() is tested,
\* so a row or column of N raises IndexError and one of -1 reads the far
\* edge; only in-range squares are appended.
King_valid_pos(self) ==
    LET curs == [i \in DOMAIN KingUnits |->
                    Add(objs[self].position, KingUnits[i])]
        Keep(cur) == in_range(cur) /\ ~OwnTarget(self, cur)
    IN  IF \E i \in DOMAIN curs : ~Returned(get_piece(curs[i]))
        THEN Raise("IndexError")
        ELSE Value(SelectSeq(curs, Keep))

\* piece.is_valid(position), dispatched on the class of the piece.
is_valid(self, position) ==
    CASE objs[self].name = "pawn"   -> Pawn_is_valid(self, position)
      [] objs[self].name = "bishop" -> Bishop_is_valid(self, position)
      [] objs[self].name = "knight" -> Knight_is_valid(self, position)
      [] objs[self].name = "rook"   -> Rook_is_valid(self, position)
      [] objs[self].name = "queen"  -> Queen_is_valid(self, position)
      [] objs[self].name = "king"   -> King_is_valid(self, position)

\* piece.valid_pos(), dispatched on the class of the piece.
valid_pos(self) ==
    CASE objs[self].name = "pawn"   -> Pawn_valid_pos(self)
      [] objs[self].name = "bishop" -> Bishop_valid_pos(self)
      [] objs[self].name = "knight" -> Knight_valid_pos(self)
      [] objs[self].name = "rook"   -> Rook_valid_pos(self)
      [] objs[self].name = "queen"  -> Queen_valid_pos(self)
      [] objs[self].name = "king"   -> King_valid_pos(self)

\* The positions one pass of the attack loop of Pawn.valid_pos calls
\* get_piece with: p, and ep unless p raised or holds an enemy.
PawnAttackGets(self, p) ==
    LET gp == get_piece(p) IN
    {p} \cup
    IF Returned(gp) /\ ~(gp.val # None /\ objs[gp.val].color # objs[self].color)
    THEN {Add(p, <<-PawnUnit(self), 0>>)}
    ELSE {}

\* The positions Pawn.valid_pos calls get_piece with, up to the call that
\* raises, if one does.
Pawn_valid_pos_gets(self) ==
    LET here == objs[self].position
        unit == PawnUnit(self)
        forward_one == Add(here, <<unit, 0>>)
        g1 == get_piece(forward_one)
        left == Add(here, <<unit, -1>>)
        right == Add(here, <<unit, 1>>)
    IN  {forward_one} \cup
        IF ~Returned(g1) THEN {}
        ELSE (IF g1.val = None /\ here[1] = PawnStart(self)
              THEN {Add(here, <<2 * unit, 0>>)} ELSE {})
             \cup PawnAttackGets(self, left)
             \cup (IF Returned(PawnAttack(self, left))
                   THEN PawnAttackGets(self, right) ELSE {})

\* The positions the inner loop of Bishop/Rook.valid_pos calls get_piece
\* with along one unit: each in-range square up to the first occupied one.
RECURSIVE RayGets(_, _)
RayGets(cur, unit) ==
    LET nxt == Add(cur, unit) IN
    IF ~in_range(nxt) THEN {}
    ELSE IF get_piece(nxt).val # None THEN {nxt}
    ELSE {nxt} \cup RayGets(nxt, unit)

\* The positions King.valid_pos calls get_piece with: every cur, up to the
\* one that raises, if one does.
King_valid_pos_gets(self) ==
    LET curs == [i \in DOMAIN KingUnits |->
                    Add(objs[self].position, KingUnits[i])]
    IN  {curs[i] : i \in {k \in DOMAIN curs :
                            \A j \in 1 .. (k - 1) : Returned(get_piece(curs[j]))}}

\* The positions piece.valid_pos() calls board.get_piece with.  Knight,
\* Bishop and Rook test cur.in_range() first; Queen.valid_pos raises before
\* its first call.
valid_pos_gets(self) ==
    CASE objs[self].name = "pawn"   -> Pawn_valid_pos_gets(self)
      [] objs[self].name = "bishop" ->
            UNION {RayGets(objs[self].position, BishopUnits[i]) :
                      i \in DOMAIN BishopUnits}
      [] objs[self].name = "knight" ->
            {cur \in {Add(objs[self].position, KnightUnits[i]) :
                          i \in DOMAIN KnightUnits} : in_range(cur)}
      [] objs[self].name = "rook"   ->
            UNION {RayGets(objs[self].position, RookUnits[i]) :
                      i \in DOMAIN RookUnits}
      [] objs[self].name = "queen"  -> {}
      [] objs[self].name = "king"   -> King_valid_pos_gets(self)

\* The pieces a caller can reach through the grid: board.get_piece(p).
OnBoard == {board[r][c] : r \in Rows, c \in Rows} \ {None}

----------------------------------------------------------------------------
(* Board.add_piece, Board.remove_piece, Board.move_piece *)

SetCell(b, p, v) == [b EXCEPT ![p[1]][p[2]] = v]

\* list.remove(x): drops the first occurrence of x.
RECURSIVE ListRemove(_, _)
ListRemove(s, x) ==
    IF s = <<>> THEN <<>>
    ELSE IF Head(s) = x THEN Tail(s)
    ELSE <<Head(s)>> \o ListRemove(Tail(s), x)

Range(s) == {s[i] : i \in DOMAIN s}

\* add_piece(Name(color), position), the piece a new object.  The cell is
\* assigned whatever it held; the piece is appended to the registry.
add_piece(name, color, position) ==
    LET piece == Len(objs) + 1 IN
    /\ board' = SetCell(board, position, piece)
    /\ objs' = Append(objs, [name |-> name, color |-> color,
                             position |-> position, attached |-> TRUE])
    /\ pieces' = Append(pieces, piece)
    /\ kings' = IF name = "king" THEN [kings EXCEPT ![color] = piece] ELSE kings
    /\ last' = [op |-> "add", n |-> last.n + 1, a |-> position, b |-> position,
                piece |-> piece, prev |-> board[position[1]][position[2]],
                exc |-> "none", offered |-> FALSE]
    /\ UNCHANGED <<en_passant, queen_side_castle, king_side_castle, turn>>

\* remove_piece(position).  On an empty cell piece is None and
\* piece.position = None raises AttributeError after the cell was assigned
\* None again.
remove_piece(position) ==
    LET piece == board[position[1]][position[2]] IN
    /\ board' = SetCell(board, position, None)
    /\ IF piece = None
       THEN /\ UNCHANGED <<objs, pieces>>
            /\ last' = [op |-> "remove", n |-> last.n + 1, a |-> position,
                        b |-> position, piece |-> None, prev |-> None,
                        exc |-> "AttributeError", offered |-> FALSE]
       ELSE /\ objs' = [objs EXCEPT ![piece].position = <<>>,
                                    ![piece].attached = FALSE]
            /\ pieces' = ListRemove(pieces, piece)
            /\ last' = [op |-> "remove", n |-> last.n + 1, a |-> position,
                        b |-> position, piece |-> piece, prev |-> piece,
                        exc |-> IF piece \in Range(pieces) THEN "none"
                                ELSE "ValueError",
                        offered |-> FALSE]
    /\ UNCHANGED <<kings, en_passant, queen_side_castle, king_side_castle, turn>>

\* The piece gives position as a destination of its own: is_valid(position)
\* returns true, or valid_pos() returns a list that holds it.
Offers(piece, position) ==
    \/ Returned(is_valid(piece, position)) /\ is_valid(piece, position).val
    \/ Returned(valid_pos(piece)) /\ InSeq(position, valid_pos(piece).val)

\* The en-passant block of move_piece (lines 344-351): a pawn that leaves
\* its start row for the row two ahead becomes the target; any other pawn
\* move leaves the target as it is; a move of any other piece clears it.
EnPassantAfter(piece, initial, final) ==
    LET unit == IF objs[piece].color = "white" THEN 1 ELSE -1
        start == IF objs[piece].color = "white" THEN 1 ELSE 6
    IN  IF objs[piece].name = "pawn"
        THEN IF initial[1] = start /\ final[1] = start + 2 * unit
             THEN piece
             ELSE en_passant
        ELSE None

\* The castling block of move_piece (lines 353-362).  Its three statements
\* assign into queen_side_castle / king_side_castle, names bound neither in
\* move_piece nor in the module (the tables are self.queen_side_castle and
\* self.king_side_castle): the first statement reached raises NameError and
\* assigns nothing.  piece.position is final by then.
CastlingOutcome(piece, final) ==
    IF objs[piece].name = "king" THEN "NameError"
    ELSE IF objs[piece].name = "rook" /\ final[1] = 0 THEN "NameError"
    ELSE IF objs[piece].name = "rook" /\ final[1] = 7 THEN "NameError"
    ELSE "none"

\* move_piece(initial, final).  With no piece at initial both cells are
\* assigned None and piece.position = final raises AttributeError.
move_piece(initial, final) ==
    LET piece == board[initial[1]][initial[2]] IN
    /\ board' = SetCell(SetCell(board, final, piece), initial, None)
    /\ IF piece = None
       THEN /\ UNCHANGED <<objs, en_passant>>
            /\ last' = [op |-> "move", n |-> last.n + 1, a |-> initial,
                        b |-> final, piece |-> None,
                        prev |-> board[final[1]][final[2]],
                        exc |-> "AttributeError", offered |-> FALSE]
       ELSE /\ objs' = [objs EXCEPT ![piece].position = final]
            /\ en_passant' = EnPassantAfter(piece, initial, final)
            /\ last' = [op |-> "move", n |-> last.n + 1, a |-> initial,
                        b |-> final, piece |-> piece,
                        prev |-> board[final[1]][final[2]],
                        exc |-> CastlingOutcome(piece, final),
                        offered |-> Offers(piece, final)]
    /\ UNCHANGED <<pieces, kings, queen_side_castle, king_side_castle, turn>>

----------------------------------------------------------------------------
(* The inputs the operations are called with *)

a2 == Position(1, 0)
a4 == Position(3, 0)
a5 == Position(4, 0)
a8 == Position(7, 0)
b2 == Position(1, 1)
b4 == Position(3, 1)
e1 == Position(0, 4)
e2 == Position(1, 4)
f3 == Position(2, 5)

MoveSquares == {a2, a4, a5, a8, b2, b4, e1, e2}

AddSquares == {a4, e2, f3}

AddPiece ==
    /\ last.n < MaxOps
    /\ \E name \in Names, color \in Colors, position \in AddSquares :
          add_piece(name, color, position)

RemovePiece ==
    /\ last.n < MaxOps
    /\ \E position \in MoveSquares : remove_piece(position)

MovePiece ==
    /\ last.n < MaxOps
    /\ \E initial \in MoveSquares, final \in MoveSquares :
          move_piece(initial, final)

Next == AddPiece \/ RemovePiece \/ MovePiece

Spec == Init /\ [][Next]_vars

\* The characters the strings given to locate are made of: the files, the
\* ranks, and some that are neither.
Chars == Range(Files) \cup Range(Ranks) \cup {"i", "0", "9", "A"}

\* The strings locate is called with: of one and of two characters.
Strings == {<<c>> : c \in Chars} \cup (Chars \X Chars)

\* The positions str() is called on: the board and one step around it.
Positions == (-1 .. N) \X (-1 .. N)

\* A call locate(pos_str): a is the string, b the Position returned.
Locate ==
    \E pos_str \in Strings :
        /\ last' = [op |-> "locate", n |-> last.n, a |-> pos_str,
                    b |-> IF Returned(locate(pos_str)) THEN locate(pos_str).val
                          ELSE <<>>,
                    piece |-> None, prev |-> None,
                    exc |-> IF Returned(locate(pos_str)) THEN "none"
                            ELSE locate(pos_str).kind,
                    offered |-> FALSE]
        /\ UNCHANGED <<board, pieces, kings, en_passant, queen_side_castle,
                       king_side_castle, turn, objs>>

\* A call str(p): a is the Position, b the string returned.
Str ==
    \E p \in Positions :
        /\ last' = [op |-> "str", n |-> last.n, a |-> p,
                    b |-> IF Returned(Position_str(p)) THEN Position_str(p).val
                          ELSE <<>>,
                    piece |-> None, prev |-> None,
                    exc |-> IF Returned(Position_str(p)) THEN "none"
                            ELSE Position_str(p).kind,
                    offered |-> FALSE]
        /\ UNCHANGED <<board, pieces, kings, en_passant, queen_side_castle,
                       king_side_castle, turn, objs>>

\* The notation codec on its own: calls of locate and of str.
SpecCodec == Init /\ [][Locate \/ Str]_vars

----------------------------------------------------------------------------
(* Properties *)

\* The last operation was a move_piece call that found a piece at initial
\* and took it to another square the piece itself gave as a destination.
Moved == last.op = "move" /\ last.piece # None /\ last.b # last.a /\ last.offered

\* C1: for every piece on the board and every in-range destination d,
\* valid_pos() and is_valid(d) both return, and d is in valid_pos() if and
\* only if is_valid(d) is true.
C1_DestinationIffValid ==
    \A self \in OnBoard : \A d \in InRange :
        /\ Returned(valid_pos(self))
        /\ Returned(is_valid(self, d))
        /\ InSeq(d, valid_pos(self).val) <=> is_valid(self, d).val

\* The moved piece is a pawn that left its start row for the row two ahead.
DoubleAdvance ==
    /\ objs[last.piece].name = "pawn"
    /\ last.a[1] = PawnStart(last.piece)
    /\ last.b[1] = PawnStart(last.piece) + 2 * PawnUnit(last.piece)

\* C2: after a move, the en-passant target is the moved piece if it is a
\* pawn that advanced two rows from its start row, and none after any other
\* move of any piece.
C2_EnPassantFollowsLastMove ==
    Moved => en_passant = IF DoubleAdvance THEN last.piece ELSE None

HomeRow(color) == IF color = "white" THEN 0 ELSE N - 1

\* C3: after a king has moved, both castling rights of its color are false;
\* after a rook has moved away from the queen-side (king-side) home square
\* of its color, that color's queen-side (king-side) right is false.
C3_MovesClearCastlingRights ==
    Moved =>
        LET me == objs[last.piece] IN
        /\ me.name = "king" =>
              ~queen_side_castle[me.color] /\ ~king_side_castle[me.color]
        /\ (me.name = "rook" /\ last.a = Position(HomeRow(me.color), 0)
                /\ last.b # last.a) =>
              ~queen_side_castle[me.color]
        /\ (me.name = "rook" /\ last.a = Position(HomeRow(me.color), N - 1)
                /\ last.b # last.a) =>
              ~king_side_castle[me.color]

\* C5: a move of a piece onto an empty square completes without an
\* exception, and afterwards the source cell is empty, the destination cell
\* holds the moved piece, and the piece's position is the destination.
C5_MoveOntoEmptySquare ==
    (Moved /\ last.prev = None) =>
        /\ last.exc = "none"
        /\ get_piece(last.a).val = None
        /\ get_piece(last.b).val = last.piece
        /\ objs[last.piece].position = last.b

\* The units of the rays of a sliding piece.
SlidingUnits(self) ==
    CASE objs[self].name = "bishop" -> BishopUnits
      [] objs[self].name = "rook"   -> RookUnits
      [] objs[self].name = "queen"  -> QueenUnits

\* The square k steps along unit from the piece.
Along(self, unit, k) == Add(objs[self].position, <<k * unit[1], k * unit[2]>>)

Empty(sq) == get_piece(sq).val = None

Enemy(self, sq) ==
    get_piece(sq).val # None /\ objs[get_piece(sq).val].color # objs[self].color

\* The list holds, of each ray, the empty squares before the first occupied
\* square, that square iff its occupant is an enemy, and nothing beyond it.
RayRule(self, list) ==
    \A i \in DOMAIN SlidingUnits(self), k \in 1 .. (N - 1) :
        LET unit == SlidingUnits(self)[i]
            sq == Along(self, unit, k)
        IN  in_range(sq) =>
                (InSeq(sq, list) <=>
                    /\ \A j \in 1 .. (k - 1) : Empty(Along(self, unit, j))
                    /\ Empty(sq) \/ Enemy(self, sq))

\* C6: valid_pos() of every bishop, rook and queen on the board returns a
\* list that obeys the ray rule.
C6_SlidingStopsAtFirstOccupied ==
    \A self \in OnBoard :
        objs[self].name \in {"bishop", "rook", "queen"} =>
            /\ Returned(valid_pos(self))
            /\ RayRule(self, valid_pos(self).val)

\* C7: the registry lists no piece twice, lists exactly the pieces that
\* occupy cells, and every listed piece's position is the cell that holds it.
C7_RegistryMatchesGrid ==
    /\ \A i, j \in DOMAIN pieces : i # j => pieces[i] # pieces[j]
    /\ Range(pieces) = OnBoard
    /\ \A p \in Range(pieces) :
          /\ objs[p].position # <<>>
          /\ get_piece(objs[p].position).val = p

\* The king of the color stands on a square that is among the destinations
\* valid_pos() returns for an opposing piece on the board.
Attacked(color) ==
    /\ kings[color] # None
    /\ objs[kings[color]].position # <<>>
    /\ \E p \in OnBoard :
          /\ objs[p].color # color
          /\ Returned(valid_pos(p))
          /\ InSeq(objs[kings[color]].position, valid_pos(p).val)

\* C8: on a board whose registry matches its grid, no move that completes
\* leaves the king of the mover's color attacked.
C8_NoMoveLeavesOwnKingAttacked ==
    (Moved /\ last.exc = "none" /\ C7_RegistryMatchesGrid) =>
        ~Attacked(objs[last.piece].color)

\* The committed state of the board.
committed == <<board, pieces, kings, en_passant, queen_side_castle,
               king_side_castle, turn>>

\* A move attempt the executor has to reject: the mover is not of the
\* active color (WrongTurn), or is_valid says no (IllegalMove).
MustReject(initial, final) ==
    LET piece == get_piece(initial).val IN
    /\ piece # None
    /\ \/ objs[piece].color # turn
       \/ Returned(is_valid(piece, final)) /\ ~is_valid(piece, final).val

\* This step is a move_piece(initial, final) call.
MoveStep == last'.op = "move" /\ last'.n = last.n + 1

\* C9: a move attempt that is to be rejected (WrongTurn, IllegalMove) leaves
\* the grid, the registry, the king lookup, the en-passant target, the
\* castling rights and the active color as they were.
C9_RejectedMoveChangesNothing ==
    [][(MoveStep /\ MustReject(last'.a, last'.b)) => UNCHANGED committed]_vars

\* This step is a move_piece call that completes for a piece of the given
\* color, to a destination the piece gave as its own.
CompletesFor(color) ==
    /\ MoveStep
    /\ last'.piece # None
    /\ objs[last'.piece].color = color
    /\ last'.offered
    /\ last'.exc = "none"

\* C10: no move completes for a mover of the other color, the active color
\* flips when a move of the active color completes, and it changes at no
\* other step.
C10_TurnFlipsWithEachMove ==
    [][/\ \A color \in Colors \ {turn} : ~CompletesFor(color)
       /\ CompletesFor(turn) => turn' # turn
       /\ turn' # turn => CompletesFor(turn)]_vars

\* C11: a move_piece call that finds no piece at initial fails with an
\* exception and leaves the grid (the occupant of final included), the
\* registry, the en-passant target and the castling rights as they were.
C11_MoveFromEmptyChangesNothing ==
    [][(MoveStep /\ last'.piece = None) =>
          /\ last'.exc # "none"
          /\ UNCHANGED <<board, pieces, en_passant, queen_side_castle,
                         king_side_castle>>]_vars

\* C12: str(p) of an in-range Position p is a string locate takes back to
\* p, and locate(s) of a string s made of a file a-h and a rank 1-8 is a
\* Position whose str is s.
C12_NotationRoundTrip ==
    /\ (last.op = "str" /\ in_range(last.a)) =>
          /\ last.exc = "none"
          /\ locate(last.b) = Value(last.a)
    /\ (last.op = "locate" /\ last.a \in Range(Files) \X Range(Ranks)) =>
          /\ last.exc = "none"
          /\ Position_str(last.b) = Value(last.a)

\* str(Position(3, 4)) was called and returned "e4", which locate takes
\* back to row 3, column 4.
C12_Witness ==
    /\ last.op = "str"
    /\ last.a = Position(3, 4)
    /\ last.b = <<"e", "4">>
    /\ locate(last.b) = Value(Position(3, 4))

\* C13: for every piece on the board, piece_is_blocked_straight and
\* piece_is_blocked_diagonal both return true for the piece's own position.
C13_ZeroLengthIsBlocked ==
    \A self \in OnBoard :
        /\ piece_is_blocked_straight(self, objs[self].position) = Value(TRUE)
        /\ piece_is_blocked_diagonal(self, objs[self].position) = Value(TRUE)

\* The in-range squares diagonally ahead of a pawn.
PawnDiagonals(self) ==
    {d \in {Add(objs[self].position, <<PawnUnit(self), -1>>),
            Add(objs[self].position, <<PawnUnit(self), 1>>)} : in_range(d)}

\* The pawn gives d as a destination: valid_pos() lists it or is_valid(d)
\* is true.
PawnGives(self, d) ==
    \/ Returned(Pawn_valid_pos(self)) /\ InSeq(d, Pawn_valid_pos(self).val)
    \/ Returned(Pawn_is_valid(self, d)) /\ Pawn_is_valid(self, d).val

\* C14: after a move on a board whose registry matches its grid, a pawn
\* gives a diagonal-forward square that holds no enemy piece as a
\* destination only if the square is empty and the square beside the pawn
\* in that file holds the recorded en-passant pawn, of the other color.
C14_DiagonalOnlyByEnPassant ==
    \A self \in OnBoard :
        (Moved /\ C7_RegistryMatchesGrid /\ objs[self].name = "pawn") =>
            \A d \in PawnDiagonals(self) :
                LET beside == get_piece(Add(d, <<-PawnUnit(self), 0>>)).val IN
                (PawnGives(self, d) /\ ~Enemy(self, d)) =>
                    /\ Empty(d)
                    /\ beside # None
                    /\ beside = en_passant
                    /\ objs[beside].color # objs[self].color

\* C15: for every piece on the board, valid_pos() calls get_piece with
\* in-range positions only, and the list it returns holds in-range
\* positions only.
C15_ValidPosStaysInRange ==
    \A self \in OnBoard :
        /\ \A q \in valid_pos_gets(self) : in_range(q)
        /\ Returned(valid_pos(self)) =>
              \A i \in DOMAIN valid_pos(self).val : in_range(valid_pos(self).val[i])

====
